---- MODULE Spec2Model ----
(***************************************************************************)
(* Model of scopedlocalref::ScopedLocalRef<Deleter, Resources...>          *)
(* (src/scopedlocalref.hpp).  The instantiation modelled is                *)
(* ScopedLocalRef<Deleter, T*, int>: a raw pointer at index 0 and an int   *)
(* at index 1, with a trivially copyable deleter (a function pointer).     *)
(* For these types std::move of a tuple element or of the deleter is a     *)
(* copy, so a moved-from member keeps its value.                           *)
(*                                                                         *)
(* Every guard object is one of NGuards storage slots.  The program        *)
(* variables are the three data members of every guard plus the lifetime   *)
(* of the object.  The remaining variables are history variables: what     *)
(* every guard was constructed with, which operations it has seen, every   *)
(* invocation of a deleter, and a record of the last operation with its    *)
(* result.  One action is one call of one member function.                 *)
(***************************************************************************)
EXTENDS Integers, Sequences, FiniteSets, TLC

\* ---------------------------------------------------------------- bounds
NGuards == 2        \* guard objects that exist in one run
MaxPtr  == 1        \* pointer values 1..MaxPtr besides the null pointer
MaxInt  == 1        \* int values 0..MaxInt
NDeleters == 2      \* distinct deleter values

\* ------------------------------------------------------- values and types
nullptr == 0
NoDeleter == 0
NoGuard == 0

Guards   == 1..NGuards
Deleters == 1..NDeleters

\* Resources... of the instantiation: index 0 is T*, index 1 is int.
ResourceTypes == <<"ptr", "int">>
Indices == 0..(Len(ResourceTypes) - 1)
TypeAt(I) == ResourceTypes[I + 1]
ValuesOf(t) == IF t = "ptr" THEN 0..MaxPtr ELSE 0..MaxInt
Tuples == {<<p, n>> : p \in ValuesOf("ptr"), n \in ValuesOf("int")}

\* std::get<I>(t) and std::get<I>(t) = v
TupleGet(t, I) == t[I + 1]
TupleSet(t, I, v) == [t EXCEPT ![I + 1] = v]

\* m_resources = {}: every element value-initialised (null pointer, 0).
EmptyResources == [k \in 1..Len(ResourceTypes) |-> 0]

\* Mutant: the pointer specialisations are missing, every value is valid.
ValidityCheck_AlwaysValid(t, x) == TRUE

\* ValidityCheck<T>::check, ValidityCheck<T*>::check, ValidityCheck<T* const&>::check
ValidityCheck(t, x) == IF t = "ptr" THEN x # nullptr ELSE TRUE

VARIABLES
    life,          \* guard -> "unborn" | "alive" | "dead"
    m_resources,   \* guard -> tuple
    m_deleter,     \* guard -> deleter
    m_released,    \* guard -> BOOLEAN
    origin,        \* guard -> how it was constructed (kept while the guard is pristine)
    pristine,      \* guard -> no mutating call has been made on it since construction
    quiet,         \* guard -> it was move-constructed and no mutating call was made on its source since
    relby,         \* guard -> what discharged its obligation ("none" while it holds one)
    ncalls,        \* guard -> deleter invocations this guard object has made
    since,         \* guard -> deleter invocations it has made since it last took on an obligation
    last,          \* the last operation and its outcome
    hist           \* resource-set history, kept by the specifications that track it

vars == <<life, m_resources, m_deleter, m_released, origin, pristine, quiet, relby,
          ncalls, since, last, hist>>

NoMembers == [res |-> EmptyResources, del |-> NoDeleter, rel |-> FALSE]

\* Snapshot of the data members of guard g (of nothing, for NoGuard).
Members(g) ==
    IF g = NoGuard THEN NoMembers
    ELSE [res |-> m_resources[g], del |-> m_deleter[g], rel |-> m_released[g]]

NoOrigin == [how |-> "none", del |-> NoDeleter, res |-> EmptyResources,
             from |-> NoGuard, live |-> FALSE, base |-> 0]

\* The members of guard g together with its history counters.
NoSnap == [res |-> EmptyResources, del |-> NoDeleter, rel |-> FALSE, n |-> 0, by |-> "none"]
Snap(g) ==
    IF g = NoGuard THEN NoSnap
    ELSE [res |-> m_resources[g], del |-> m_deleter[g], rel |-> m_released[g],
          n |-> ncalls[g], by |-> relby[g]]

NoLast == [op |-> "none", g |-> NoGuard, src |-> NoGuard, idx |-> 0, arg |-> 0,
           err |-> "none", ret |-> <<>>, bv |-> FALSE, calls |-> <<>>,
           pre |-> NoSnap, presrc |-> NoSnap, post |-> NoMembers]

\* given: the tuple every guard was constructed with; asgiven: the guard's
\* last deleter invocation passed that tuple; changed: the guard's tuple
\* was replaced by set or by a move-assignment.  used: the resource sets
\* guards were constructed over; cleaned, stolen: how often every tuple was
\* passed to a deleter and returned by steal().  nested: what the calls a
\* deleter made on its own guard observed.
NoHist == [given |-> [g \in Guards |-> EmptyResources],
           asgiven |-> [g \in Guards |-> FALSE],
           changed |-> [g \in Guards |-> FALSE],
           used |-> {},
           cleaned |-> [r \in Tuples |-> 0],
           stolen |-> [r \in Tuples |-> 0],
           nested |-> <<>>]

Init ==
    /\ life = [g \in Guards |-> "unborn"]
    /\ m_resources = [g \in Guards |-> EmptyResources]
    /\ m_deleter = [g \in Guards |-> NoDeleter]
    /\ m_released = [g \in Guards |-> FALSE]
    /\ origin = [g \in Guards |-> NoOrigin]
    /\ pristine = [g \in Guards |-> FALSE]
    /\ quiet = [g \in Guards |-> FALSE]
    /\ relby = [g \in Guards |-> "none"]
    /\ ncalls = [g \in Guards |-> 0]
    /\ since = [g \in Guards |-> 0]
    /\ last = NoLast
    /\ hist = NoHist

\* ------------------------------------------------------------- cleanup()
\* Mutant: the deleter gets the resources in reverse order.
cleanup_ReversedArgs(mem, threw) ==
    IF ~mem.rel
    THEN [res |-> EmptyResources, del |-> mem.del, rel |-> TRUE,
          calls |-> <<[d |-> mem.del,
                       args |-> [k \in 1..Len(mem.res) |-> mem.res[Len(mem.res) + 1 - k]],
                       threw |-> threw]>>,
          err |-> "none"]
    ELSE [res |-> mem.res, del |-> mem.del, rel |-> mem.rel,
          calls |-> <<>>, err |-> "none"]

\* Mutant: m_released = true is missing.
cleanup_KeepsFlag(mem, threw) ==
    IF ~mem.rel
    THEN [res |-> EmptyResources, del |-> mem.del, rel |-> FALSE,
          calls |-> <<[d |-> mem.del, args |-> mem.res, threw |-> threw]>>,
          err |-> "none"]
    ELSE [res |-> mem.res, del |-> mem.del, rel |-> mem.rel,
          calls |-> <<>>, err |-> "none"]

\* Mutant: no try/catch around the deleter; its exception leaves cleanup()
\* before the members are reset.
cleanup_NoCatch(mem, threw) ==
    IF ~mem.rel
    THEN IF threw
         THEN [res |-> mem.res, del |-> mem.del, rel |-> FALSE,
               calls |-> <<[d |-> mem.del, args |-> mem.res, threw |-> threw]>>,
               err |-> "cleanup_failure"]
         ELSE [res |-> EmptyResources, del |-> mem.del, rel |-> TRUE,
               calls |-> <<[d |-> mem.del, args |-> mem.res, threw |-> threw]>>,
               err |-> "none"]
    ELSE [res |-> mem.res, del |-> mem.del, rel |-> mem.rel,
          calls |-> <<>>, err |-> "none"]

\* The effect of cleanup() on the members mem, when the deleter throws
\* (threw) or returns.  calls lists the deleter invocations made, err the
\* exception leaving cleanup().
cleanup(mem, threw) ==
    IF ~mem.rel
    THEN [res |-> EmptyResources, del |-> mem.del, rel |-> TRUE,
          calls |-> <<[d |-> mem.del, args |-> mem.res, threw |-> threw]>>,
          err |-> "none"]
    ELSE [res |-> mem.res, del |-> mem.del, rel |-> mem.rel,
          calls |-> <<>>, err |-> "none"]

\* History bookkeeping shared by the actions.
\* q after a mutating call on guard x: the guards move-constructed from x
\* no longer have a quiet source.
SourceTouched(q, x) == [h \in Guards |-> IF origin[h].from = x THEN FALSE ELSE q[h]]

Touch(g) ==
    /\ pristine' = [pristine EXCEPT ![g] = FALSE]
    /\ quiet' = SourceTouched(quiet, g)
    /\ origin' = [origin EXCEPT ![g] = NoOrigin]

\* What discharged the obligation of a guard on which cleanup() returned c.
Discharged(old, c) ==
    IF c.calls = <<>> THEN old
    ELSE IF c.calls[1].threw THEN "cleanup_threw" ELSE "cleanup"

Record(op, g, src, idx, arg, err, ret, bv, calls, post) ==
    last' = [op |-> op, g |-> g, src |-> src, idx |-> idx, arg |-> arg, err |-> err,
             ret |-> ret, bv |-> bv, calls |-> calls,
             pre |-> Snap(g), presrc |-> Snap(src), post |-> post]

\* ------------------------------------------------------------ constructor
Construct(g, d, r) ==
    /\ life[g] = "unborn"
    /\ life' = [life EXCEPT ![g] = "alive"]
    /\ m_deleter' = [m_deleter EXCEPT ![g] = d]
    /\ m_resources' = [m_resources EXCEPT ![g] = r]
    /\ m_released' = [m_released EXCEPT ![g] = FALSE]
    /\ origin' = [origin EXCEPT ![g] = [how |-> "ctor", del |-> d, res |-> r,
                                        from |-> NoGuard, live |-> TRUE, base |-> 0]]
    /\ pristine' = [pristine EXCEPT ![g] = TRUE]
    /\ since' = [since EXCEPT ![g] = 0]
    /\ Record("construct", g, NoGuard, 0, 0, "none", <<>>, FALSE, <<>>, NoMembers)
    /\ UNCHANGED <<quiet, relby, ncalls>>

\* ------------------------------------------------------------- destructor
\* ~ScopedLocalRef() runs cleanup() and the object's lifetime ends: its
\* members are no longer part of the program state.  What cleanup() left in
\* them is kept in last.post.
Destroy(g, threw) ==
    /\ life[g] = "alive"
    /\ LET c == cleanup(Members(g), threw) IN
        /\ ncalls' = [ncalls EXCEPT ![g] = @ + Len(c.calls)]
        /\ since' = [since EXCEPT ![g] = @ + Len(c.calls)]
        /\ relby' = [relby EXCEPT ![g] = Discharged(@, c)]
        /\ Record("destroy", g, NoGuard, 0, 0, c.err, <<>>, FALSE, c.calls,
                  [res |-> c.res, del |-> c.del, rel |-> c.rel])
    /\ life' = [life EXCEPT ![g] = "dead"]
    /\ m_resources' = [m_resources EXCEPT ![g] = EmptyResources]
    /\ m_deleter' = [m_deleter EXCEPT ![g] = NoDeleter]
    /\ m_released' = [m_released EXCEPT ![g] = FALSE]
    /\ UNCHANGED <<origin, pristine, quiet>>

\* ------------------------------------------------------- move constructor
\* What std::move(other.m_resources) / std::move(other.m_deleter) leaves
\* behind in the source member: for a tuple of a raw pointer and an int,
\* and for a function pointer, the move is a copy.
MovedFromResources(t) == t
MovedFromDeleter(d) == d

\* Mutant: m_released is not taken over from other.
MoveInto_NotReleased(oth) == [res |-> oth.res, del |-> oth.del, rel |-> FALSE]

\* The members of the new guard and of other after ScopedLocalRef(ScopedLocalRef&&).
MoveInto(oth) == [res |-> oth.res, del |-> oth.del, rel |-> oth.rel]

\* Mutant: other.m_released = true is missing.
MoveOutOf_KeepsFlag(oth) ==
    [res |-> MovedFromResources(oth.res), del |-> MovedFromDeleter(oth.del), rel |-> oth.rel]

\* Mutant: other.m_released = false instead of true.
MoveOutOf_ClearsFlag(oth) ==
    [res |-> MovedFromResources(oth.res), del |-> MovedFromDeleter(oth.del), rel |-> FALSE]

MoveOutOf(oth) ==
    [res |-> MovedFromResources(oth.res), del |-> MovedFromDeleter(oth.del), rel |-> TRUE]

MoveConstruct(g, other) ==
    /\ life[g] = "unborn"
    /\ life[other] = "alive"
    /\ life' = [life EXCEPT ![g] = "alive"]
    /\ LET t == MoveInto(Members(other))
           o == MoveOutOf(Members(other))
       IN  /\ m_resources' = [m_resources EXCEPT ![g] = t.res, ![other] = o.res]
           /\ m_deleter' = [m_deleter EXCEPT ![g] = t.del, ![other] = o.del]
           /\ m_released' = [m_released EXCEPT ![g] = t.rel, ![other] = o.rel]
    /\ origin' = [origin EXCEPT ![g] = [how |-> "move", del |-> m_deleter[other],
                                        res |-> m_resources[other], from |-> other,
                                        live |-> ~m_released[other],
                                        base |-> ncalls[other]],
                                ![other] = NoOrigin]
    /\ pristine' = [pristine EXCEPT ![g] = TRUE, ![other] = FALSE]
    /\ quiet' = [SourceTouched(quiet, other) EXCEPT ![g] = TRUE]
    /\ relby' = [relby EXCEPT ![g] = IF m_released[other] THEN "inherited" ELSE "none",
                              ![other] = IF m_released[other] THEN @ ELSE "moved"]
    /\ since' = [since EXCEPT ![g] = 0]
    /\ Record("move_construct", g, other, 0, 0, "none", <<>>, FALSE, <<>>, NoMembers)
    /\ UNCHANGED ncalls

\* -------------------------------------------------------- move assignment
\* Mutant: the members are transferred before cleanup() runs.
move_assign_TransferFirst(mem, oth, threw) ==
    LET c == cleanup([res |-> oth.res, del |-> oth.del, rel |-> oth.rel], threw) IN
    [this |-> [res |-> c.res, del |-> c.del, rel |-> c.rel],
     other |-> [res |-> MovedFromResources(oth.res), del |-> MovedFromDeleter(oth.del),
                rel |-> TRUE],
     calls |-> c.calls, err |-> c.err]

\* operator=(ScopedLocalRef&&) with this != &other: the members of *this
\* (this) and of other afterwards, the deleter invocations made and the
\* exception leaving the operator.
move_assign(mem, oth, threw) ==
    LET c == cleanup(mem, threw) IN
    [this |-> [res |-> oth.res, del |-> oth.del, rel |-> oth.rel],
     other |-> [res |-> MovedFromResources(oth.res), del |-> MovedFromDeleter(oth.del),
                rel |-> TRUE],
     calls |-> c.calls, err |-> c.err]

\* Mutant: the self-assignment test is missing.
Distinct_Always(g, other) == TRUE

\* this != &other
Distinct(g, other) == g # other

MoveAssign(g, other, threw) ==
    /\ life[g] = "alive"
    /\ life[other] = "alive"
    /\ IF Distinct(g, other)
       THEN LET a == move_assign(Members(g), Members(other), threw)
            IN  /\ m_resources' = [m_resources EXCEPT ![g] = a.this.res, ![other] = a.other.res]
                /\ m_deleter' = [m_deleter EXCEPT ![g] = a.this.del, ![other] = a.other.del]
                /\ m_released' = [m_released EXCEPT ![g] = a.this.rel, ![other] = a.other.rel]
                /\ ncalls' = [ncalls EXCEPT ![g] = @ + Len(a.calls)]
                /\ since' = [since EXCEPT
                       ![g] = IF m_released[other] THEN @ + Len(a.calls) ELSE 0]
                /\ pristine' = [pristine EXCEPT ![g] = FALSE, ![other] = FALSE]
                /\ quiet' = SourceTouched(SourceTouched(quiet, g), other)
                /\ relby' = [relby EXCEPT
                       ![g] = IF m_released[other] THEN "inherited" ELSE "none",
                       ![other] = IF m_released[other] THEN @ ELSE "moved"]
                /\ origin' = [origin EXCEPT ![g] = NoOrigin, ![other] = NoOrigin]
                /\ Record("move_assign", g, other, 0, 0, a.err, <<>>, FALSE, a.calls, NoMembers)
       ELSE /\ Record("move_assign", g, other, 0, 0, "none", <<>>, FALSE, <<>>, NoMembers)
            /\ UNCHANGED <<m_resources, m_deleter, m_released, ncalls, since, pristine,
                           quiet, relby, origin>>
    /\ UNCHANGED life

\* ------------------------------------------------------------------- get
\* get() and get<I>(): the value returned, or the exception thrown.
get(mem, I) ==
    IF mem.rel THEN [err |-> "logic_error", ret |-> <<>>]
    ELSE [err |-> "none", ret |-> <<TupleGet(mem.res, I)>>]

\* Mutant: try_get does not look at m_released.
try_get_Unchecked(mem, I) == [err |-> "none", ret |-> <<TupleGet(mem.res, I)>>]

\* try_get() and try_get<I>(): std::nullopt is <<>>, a present value <<v>>.
try_get(mem, I) ==
    IF mem.rel THEN [err |-> "none", ret |-> <<>>]
    ELSE [err |-> "none", ret |-> <<TupleGet(mem.res, I)>>]

\* A call of one of the four getters; r is the result of get or try_get.
Load(op, g, I, r) ==
    /\ Record(op, g, NoGuard, I, 0, r.err, r.ret, FALSE, <<>>, NoMembers)
    /\ UNCHANGED <<life, m_resources, m_deleter, m_released, origin, pristine, quiet,
                   relby, ncalls, since>>

Get0(g) ==
    /\ life[g] = "alive"
    /\ Load("get", g, 0, get(Members(g), 0))

GetI(g, I) ==
    /\ life[g] = "alive"
    /\ Load("get", g, I, get(Members(g), I))

TryGet0(g) ==
    /\ life[g] = "alive"
    /\ Load("try_get", g, 0, try_get(Members(g), 0))

TryGetI(g, I) ==
    /\ life[g] = "alive"
    /\ Load("try_get", g, I, try_get(Members(g), I))

\* ------------------------------------------------------------------- set
\* Mutant: set does not look at m_released.
set_Unchecked(mem, I, v) ==
    [err |-> "none", res |-> TupleSet(mem.res, I, v), ret |-> <<>>]

\* Mutant: the new value is always written to index 0.
set_FirstIndex(mem, I, v) ==
    IF mem.rel THEN [err |-> "logic_error", res |-> mem.res, ret |-> <<>>]
    ELSE [err |-> "none", res |-> TupleSet(mem.res, 0, v), ret |-> <<>>]

\* set(v) and set<I>(v): the tuple afterwards and the exception thrown.
set(mem, I, v) ==
    IF mem.rel THEN [err |-> "logic_error", res |-> mem.res, ret |-> <<>>]
    ELSE [err |-> "none", res |-> TupleSet(mem.res, I, v), ret |-> <<>>]

\* try_set(v) and try_set<I>(v): the tuple afterwards and the status returned.
try_set(mem, I, v) ==
    IF mem.rel THEN [err |-> "none", res |-> mem.res, ret |-> <<1>>]
    ELSE [err |-> "none", res |-> TupleSet(mem.res, I, v), ret |-> <<0>>]

\* A call of one of the four setters; r is the result of set or try_set.
Store(op, g, I, v, r) ==
    /\ m_resources' = [m_resources EXCEPT ![g] = r.res]
    /\ Record(op, g, NoGuard, I, v, r.err, r.ret, FALSE, <<>>, NoMembers)
    /\ Touch(g)
    /\ UNCHANGED <<life, m_deleter, m_released, relby, ncalls, since>>

Set0(g, v) ==
    /\ life[g] = "alive"
    /\ Store("set", g, 0, v, set(Members(g), 0, v))

SetI(g, I, v) ==
    /\ life[g] = "alive"
    /\ Store("set", g, I, v, set(Members(g), I, v))

TrySet0(g, v) ==
    /\ life[g] = "alive"
    /\ Store("try_set", g, 0, v, try_set(Members(g), 0, v))

TrySetI(g, I, v) ==
    /\ life[g] = "alive"
    /\ Store("try_set", g, I, v, try_set(Members(g), I, v))

\* --------------------------------------------------------- operator bool
operator_bool(mem) ==
    ~mem.rel /\ \A I \in Indices : ValidityCheck(TypeAt(I), TupleGet(mem.res, I))

Bool(g) ==
    /\ life[g] = "alive"
    /\ Record("bool", g, NoGuard, 0, 0, "none", <<>>, operator_bool(Members(g)), <<>>, NoMembers)
    /\ UNCHANGED <<life, m_resources, m_deleter, m_released, origin, pristine, quiet,
                   relby, ncalls, since>>

\* --------------------------------------------------------------- release
Release(g, threw) ==
    /\ life[g] = "alive"
    /\ LET c == cleanup(Members(g), threw) IN
        /\ m_resources' = [m_resources EXCEPT ![g] = c.res]
        /\ m_released' = [m_released EXCEPT ![g] = c.rel]
        /\ ncalls' = [ncalls EXCEPT ![g] = @ + Len(c.calls)]
        /\ since' = [since EXCEPT ![g] = @ + Len(c.calls)]
        /\ relby' = [relby EXCEPT ![g] = Discharged(@, c)]
        /\ Record("release", g, NoGuard, 0, 0, c.err, <<>>, FALSE, c.calls, NoMembers)
    /\ Touch(g)
    /\ UNCHANGED <<life, m_deleter>>

\* ----------------------------------------------------------------- steal
\* Mutant: m_released = true is missing.
steal_KeepsFlag(mem) ==
    IF mem.rel
    THEN [err |-> "logic_error", ret |-> <<>>, res |-> mem.res, rel |-> mem.rel]
    ELSE [err |-> "none", ret |-> mem.res,
          res |-> MovedFromResources(mem.res), rel |-> FALSE]

\* steal(): the members afterwards, the tuple returned or the exception.
steal(mem) ==
    IF mem.rel
    THEN [err |-> "logic_error", ret |-> <<>>, res |-> mem.res, rel |-> mem.rel]
    ELSE [err |-> "none", ret |-> mem.res,
          res |-> MovedFromResources(mem.res), rel |-> TRUE]

Steal(g) ==
    /\ life[g] = "alive"
    /\ LET r == steal(Members(g)) IN
        /\ m_resources' = [m_resources EXCEPT ![g] = r.res]
        /\ m_released' = [m_released EXCEPT ![g] = r.rel]
        /\ relby' = [relby EXCEPT ![g] = IF r.err = "none" THEN "steal" ELSE @]
        /\ Record("steal", g, NoGuard, 0, 0, r.err, r.ret, FALSE, <<>>, NoMembers)
    /\ Touch(g)
    /\ UNCHANGED <<life, m_deleter, ncalls, since>>

Next ==
    \/ \E g \in Guards, d \in Deleters, r \in Tuples : Construct(g, d, r) /\ UNCHANGED hist
    \/ \E g \in Guards, threw \in BOOLEAN : Destroy(g, threw) /\ UNCHANGED hist
    \/ \E g \in Guards, other \in Guards : MoveConstruct(g, other) /\ UNCHANGED hist
    \/ \E g \in Guards, other \in Guards, threw \in BOOLEAN : MoveAssign(g, other, threw) /\ UNCHANGED hist
    \/ \E g \in Guards : Get0(g) /\ UNCHANGED hist
    \/ \E g \in Guards, I \in Indices : GetI(g, I) /\ UNCHANGED hist
    \/ \E g \in Guards : TryGet0(g) /\ UNCHANGED hist
    \/ \E g \in Guards, I \in Indices : TryGetI(g, I) /\ UNCHANGED hist
    \/ \E g \in Guards, v \in ValuesOf(TypeAt(0)) : Set0(g, v) /\ UNCHANGED hist
    \/ \E g \in Guards, I \in Indices : \E v \in ValuesOf(TypeAt(I)) : SetI(g, I, v) /\ UNCHANGED hist
    \/ \E g \in Guards, v \in ValuesOf(TypeAt(0)) : TrySet0(g, v) /\ UNCHANGED hist
    \/ \E g \in Guards, I \in Indices : \E v \in ValuesOf(TypeAt(I)) : TrySetI(g, I, v) /\ UNCHANGED hist
    \/ \E g \in Guards : Bool(g) /\ UNCHANGED hist
    \/ \E g \in Guards, threw \in BOOLEAN : Release(g, threw) /\ UNCHANGED hist
    \/ \E g \in Guards : Steal(g) /\ UNCHANGED hist

Spec == Init /\ [][Next]_vars

\* ==================================================================
\* The mutating operations with the history of the given values kept
\* ==================================================================

\* h after guard g made the deleter invocations calls: whether the tuple
\* passed was the one g was given; the given tuple of a guard that holds
\* no obligation is not kept.
Invoked(h, g, calls) ==
    IF calls = <<>> THEN h
    ELSE [h EXCEPT !.asgiven[g] = (calls[Len(calls)].args = h.given[g]),
                   !.given[g] = EmptyResources]

\* h after guard g gave its obligation away.
GaveAway(h, g) == [h EXCEPT !.given[g] = EmptyResources]

HistConstruct(g, d, r) ==
    /\ Construct(g, d, r)
    /\ hist' = [hist EXCEPT !.given[g] = r]

HistDestroy(g, threw) ==
    /\ Destroy(g, threw)
    /\ hist' = Invoked(hist, g, last'.calls)

HistMoveConstruct(g, other) ==
    /\ MoveConstruct(g, other)
    /\ hist' = [GaveAway(hist, other) EXCEPT
                   !.given[g] = IF m_released[other] THEN EmptyResources
                                ELSE m_resources[other]]

HistMoveAssign(g, other, threw) ==
    /\ MoveAssign(g, other, threw)
    /\ hist' = IF ~Distinct(g, other) THEN hist
               ELSE IF m_released[other] THEN Invoked(hist, g, last'.calls)
               ELSE [GaveAway(hist, other) EXCEPT
                        !.given[g] = m_resources[other],
                        !.asgiven[g] = FALSE,
                        !.changed[g] = FALSE]

HistSetI(g, I, v) ==
    /\ SetI(g, I, v)
    /\ hist' = [hist EXCEPT !.changed[g] = @ \/ ~m_released[g]]

HistRelease(g, threw) ==
    /\ Release(g, threw)
    /\ hist' = Invoked(hist, g, last'.calls)

HistSteal(g) ==
    /\ Steal(g)
    /\ hist' = IF m_released[g] THEN hist ELSE GaveAway(hist, g)

\* The history is about the resource values: one deleter value is enough.
HistDeleters == {1}

NextHist ==
    \/ \E g \in Guards, d \in HistDeleters, r \in Tuples : HistConstruct(g, d, r)
    \/ \E g \in Guards, threw \in BOOLEAN : HistDestroy(g, threw)
    \/ \E g \in Guards, other \in Guards : HistMoveConstruct(g, other)
    \/ \E g \in Guards, other \in Guards, threw \in BOOLEAN : HistMoveAssign(g, other, threw)
    \/ \E g \in Guards, I \in Indices : \E v \in ValuesOf(TypeAt(I)) : HistSetI(g, I, v)
    \/ \E g \in Guards, threw \in BOOLEAN : HistRelease(g, threw)
    \/ \E g \in Guards : HistSteal(g)

SpecHist == Init /\ [][NextHist]_vars

\* ==================================================================
\* Guards constructed over pairwise distinct resource sets, no set calls
\* ==================================================================

\* h after the deleter invocations calls: every tuple passed is counted.
Counted(h, calls) ==
    [h EXCEPT !.cleaned = [r \in Tuples |->
        @[r] + Cardinality({k \in 1..Len(calls) : calls[k].args = r})]]

\* A guard is constructed over a resource set no guard was constructed over.
OwnConstruct(g, d, r) ==
    /\ r \notin hist.used
    /\ Construct(g, d, r)
    /\ hist' = [hist EXCEPT !.used = @ \cup {r}]

OwnDestroy(g, threw) ==
    /\ Destroy(g, threw)
    /\ hist' = Counted(hist, last'.calls)

OwnMoveConstruct(g, other) ==
    /\ MoveConstruct(g, other)
    /\ UNCHANGED hist

OwnMoveAssign(g, other, threw) ==
    /\ MoveAssign(g, other, threw)
    /\ hist' = Counted(hist, last'.calls)

OwnRelease(g, threw) ==
    /\ Release(g, threw)
    /\ hist' = Counted(hist, last'.calls)

OwnSteal(g) ==
    /\ Steal(g)
    /\ hist' = IF last'.err = "none"
               THEN [hist EXCEPT !.stolen[last'.ret] = @ + 1]
               ELSE hist

NextOwn ==
    \/ \E g \in Guards, d \in Deleters, r \in Tuples : OwnConstruct(g, d, r)
    \/ \E g \in Guards, threw \in BOOLEAN : OwnDestroy(g, threw)
    \/ \E g \in Guards, other \in Guards : OwnMoveConstruct(g, other)
    \/ \E g \in Guards, other \in Guards, threw \in BOOLEAN : OwnMoveAssign(g, other, threw)
    \/ \E g \in Guards, threw \in BOOLEAN : OwnRelease(g, threw)
    \/ \E g \in Guards : OwnSteal(g)

SpecOwn == Init /\ [][NextOwn]_vars

\* ==================================================================
\* Deleters that call back into the guard they run for
\* ==================================================================

\* How deep a deleter repeats its call back into the guard.
MaxReentry == 2

\* The member a deleter calls on its own guard while it runs, if any.
Callbacks == {"none", "release", "get", "steal"}

\* cleanup() with a deleter that makes the call cb on the guard, on each of
\* its first depth invocations: the members afterwards, the deleter
\* invocations made, and what every callback saw (the released flag it
\* found, the exception it got, the deleter invocations it made in turn).
\* std::apply(m_deleter, m_resources) runs before m_released = true.
RECURSIVE reentrant_cleanup(_, _, _)
reentrant_cleanup(mem, cb, depth) ==
    IF mem.rel
    THEN [res |-> mem.res, del |-> mem.del, rel |-> mem.rel, calls |-> <<>>, seen |-> <<>>]
    ELSE LET inv == [d |-> mem.del, args |-> mem.res, threw |-> FALSE]
             inner ==
                 IF depth = 0 \/ cb = "none"
                 THEN [calls |-> <<>>, seen |-> <<>>]
                 ELSE IF cb = "release"
                 THEN LET c == reentrant_cleanup(mem, cb, depth - 1)
                      IN  [calls |-> c.calls,
                           seen |-> <<[op |-> cb, rel |-> mem.rel, err |-> "none",
                                       n |-> Len(c.calls)]>> \o c.seen]
                 ELSE IF cb = "get"
                 THEN [calls |-> <<>>,
                       seen |-> <<[op |-> cb, rel |-> mem.rel, err |-> get(mem, 0).err,
                                   n |-> 0]>>]
                 ELSE [calls |-> <<>>,
                       seen |-> <<[op |-> cb, rel |-> mem.rel, err |-> steal(mem).err,
                                   n |-> 0]>>]
         IN  [res |-> EmptyResources, del |-> mem.del, rel |-> TRUE,
              calls |-> <<inv>> \o inner.calls, seen |-> inner.seen]

ReentrantConstruct(g, d, r) ==
    /\ Construct(g, d, r)
    /\ UNCHANGED hist

ReentrantRelease(g, cb, depth) ==
    /\ life[g] = "alive"
    /\ LET c == reentrant_cleanup(Members(g), cb, depth) IN
        /\ m_resources' = [m_resources EXCEPT ![g] = c.res]
        /\ m_released' = [m_released EXCEPT ![g] = c.rel]
        /\ ncalls' = [ncalls EXCEPT ![g] = @ + Len(c.calls)]
        /\ since' = [since EXCEPT ![g] = @ + Len(c.calls)]
        /\ relby' = [relby EXCEPT ![g] = Discharged(@, c)]
        /\ Record("release", g, NoGuard, 0, 0, "none", <<>>, FALSE, c.calls, NoMembers)
        /\ hist' = [hist EXCEPT !.nested = c.seen]
    /\ Touch(g)
    /\ UNCHANGED <<life, m_deleter>>

ReentrantDestroy(g, cb, depth) ==
    /\ life[g] = "alive"
    /\ LET c == reentrant_cleanup(Members(g), cb, depth) IN
        /\ ncalls' = [ncalls EXCEPT ![g] = @ + Len(c.calls)]
        /\ since' = [since EXCEPT ![g] = @ + Len(c.calls)]
        /\ relby' = [relby EXCEPT ![g] = Discharged(@, c)]
        /\ Record("destroy", g, NoGuard, 0, 0, "none", <<>>, FALSE, c.calls,
                  [res |-> c.res, del |-> c.del, rel |-> c.rel])
        /\ hist' = [hist EXCEPT !.nested = c.seen]
    /\ life' = [life EXCEPT ![g] = "dead"]
    /\ m_resources' = [m_resources EXCEPT ![g] = EmptyResources]
    /\ m_deleter' = [m_deleter EXCEPT ![g] = NoDeleter]
    /\ m_released' = [m_released EXCEPT ![g] = FALSE]
    /\ UNCHANGED <<origin, pristine, quiet>>

NextReentrant ==
    \/ \E g \in Guards, d \in Deleters, r \in Tuples : ReentrantConstruct(g, d, r)
    \/ \E g \in Guards, cb \in Callbacks, depth \in 0..MaxReentry :
           ReentrantRelease(g, cb, depth)
    \/ \E g \in Guards, cb \in Callbacks, depth \in 0..MaxReentry :
           ReentrantDestroy(g, cb, depth)

SpecReentrant == Init /\ [][NextReentrant]_vars

\* ==================================================================
\* Properties
\* ==================================================================

\* The guard the last operation was called on, and what the call left in its
\* members (for the destructor: what cleanup() left before the lifetime ended).
PostMembers == IF last.op = "destroy" THEN last.post ELSE Members(last.g)
PreMembers == [res |-> last.pre.res, del |-> last.pre.del, rel |-> last.pre.rel]
PreSrcMembers == [res |-> last.presrc.res, del |-> last.presrc.del, rel |-> last.presrc.rel]

\* The last operation called the deleter exactly once, as d(args).
CalledOnce(d, args) ==
    /\ Len(last.calls) = 1
    /\ last.calls[1].d = d
    /\ last.calls[1].args = args

C2_MoveConstruct ==
    /\ (last.op = "move_construct" /\ ~last.presrc.rel) =>
        /\ m_released[last.src]
        /\ ~m_released[last.g]
        /\ m_resources[last.g] = last.presrc.res
        /\ m_deleter[last.g] = last.presrc.del
        /\ last.calls = <<>>
    /\ \A g2 \in Guards :
        (origin[g2].how = "move" /\ origin[g2].live /\ pristine[g2]) =>
            LET g == origin[g2].from IN
            /\ (last.op = "destroy" /\ last.g = g2) =>
                   CalledOnce(origin[g2].del, origin[g2].res)
            /\ (quiet[g2] /\ last.op = "destroy" /\ last.g = g) => last.calls = <<>>
            /\ (quiet[g2] /\ life[g] = "dead" /\ life[g2] = "dead") =>
                   (ncalls[g] - origin[g2].base) + ncalls[g2] = 1

C2_Witness ==
    \E g2 \in Guards :
        /\ origin[g2].how = "move" /\ origin[g2].live /\ pristine[g2]
        /\ quiet[g2]
        /\ life[origin[g2].from] = "dead" /\ life[g2] = "dead"
        /\ last.op = "destroy" /\ last.g = g2

\* C3: release() is idempotent.  On a guard whose obligation has been
\* discharged (by an earlier release(), or by anything else that left it
\* released) and that has not been given a new one by a move-assignment
\* since, release() and the destructor invoke no deleter, raise nothing and
\* leave the members as they were.
C3_ReleaseIdempotent ==
    (last.op \in {"release", "destroy"} /\ last.pre.by # "none") =>
        /\ last.calls = <<>>
        /\ last.err = "none"
        /\ ncalls[last.g] = last.pre.n
        /\ PostMembers = PreMembers

C3_Witness ==
    /\ last.op = "release"
    /\ last.pre.by = "cleanup"
    /\ ncalls[last.g] = 1

\* C4: steal() on a non-released guard returns the tuple currently stored
\* (whatever set calls wrote into it), sets m_released and invokes no
\* deleter; a later release() or destruction of the guard (not overwritten
\* by a move-assignment in between) invokes no deleter either.
C4_Steal ==
    /\ (last.op = "steal" /\ ~last.pre.rel) =>
        /\ last.err = "none"
        /\ last.ret = last.pre.res
        /\ m_released[last.g]
        /\ last.calls = <<>>
        /\ ncalls[last.g] = last.pre.n
    /\ (last.op \in {"release", "destroy"} /\ last.pre.by = "steal") =>
        /\ last.calls = <<>>
        /\ ncalls[last.g] = last.pre.n

C4_Witness ==
    /\ last.op = "destroy"
    /\ last.pre.by = "steal"
    /\ ncalls[last.g] = 0

\* C5: on a guard whose m_released is true, however it got there, get(),
\* get<I>(), set(v), set<I>(v) and steal() throw std::logic_error, invoke no
\* deleter and leave m_resources, m_deleter and m_released unchanged.
C5_AlreadyReleased ==
    (last.op \in {"get", "set", "steal"} /\ last.pre.rel) =>
        /\ last.err = "logic_error"
        /\ last.ret = <<>>
        /\ last.calls = <<>>
        /\ ncalls[last.g] = last.pre.n
        /\ Members(last.g) = PreMembers

C5_Witness ==
    /\ last.op = "set"
    /\ last.pre.rel
    /\ last.pre.by = "moved"
    /\ last.arg # TupleGet(last.pre.res, last.idx)

\* C6: try_get and try_set never throw.  On a released guard try_get<I>()
\* returns nullopt and try_set<I>(v) returns 1, both leaving the members
\* unchanged; on a non-released guard try_get<I>() returns the value at
\* index I and changes nothing, and try_set<I>(v) returns 0 and leaves the
\* members as set<I>(v) would: v at index I, everything else unchanged.
C6_TryNeverFails ==
    /\ last.op = "try_get" =>
        /\ last.err = "none"
        /\ Members(last.g) = PreMembers
        /\ last.ret = IF last.pre.rel THEN <<>> ELSE <<last.pre.res[last.idx + 1]>>
    /\ last.op = "try_set" =>
        /\ last.err = "none"
        /\ last.calls = <<>>
        /\ m_deleter[last.g] = last.pre.del
        /\ m_released[last.g] = last.pre.rel
        /\ last.pre.rel => (last.ret = <<1>> /\ m_resources[last.g] = last.pre.res)
        /\ ~last.pre.rel =>
            /\ last.ret = <<0>>
            /\ m_resources[last.g] = set(PreMembers, last.idx, last.arg).res
            /\ m_resources[last.g][last.idx + 1] = last.arg
            /\ \A k \in 1..Len(ResourceTypes) :
                   k # last.idx + 1 => m_resources[last.g][k] = last.pre.res[k]

C6_Witness ==
    /\ last.op = "try_get"
    /\ last.pre.rel
    /\ last.pre.res # EmptyResources
    /\ last.ret = <<>>

\* C7: in every state, the boolean conversion of a guard is true exactly
\* when m_released is false and every pointer among its resources is
\* non-null (values of the other types never count against it); it is false
\* for a guard released by release(), steal() or a move.
C7_BoolConversion ==
    /\ \A g \in Guards : life[g] = "alive" =>
        /\ operator_bool(Members(g)) <=>
               (~m_released[g] /\ \A I \in Indices :
                    TypeAt(I) = "ptr" => m_resources[g][I + 1] # nullptr)
        /\ relby[g] # "none" => ~operator_bool(Members(g))
    /\ last.op = "bool" => (last.bv <=> operator_bool(Members(last.g)))

C7_Witness ==
    /\ last.op = "bool"
    /\ ~last.bv
    /\ ~m_released[last.g]
    /\ m_resources[last.g] = <<nullptr, 1>>

\* C8: when the deleter throws during release() or destruction of a
\* non-released guard, nothing is raised to the caller, the guard ends with
\* m_released true and m_resources value-initialised, and no later release()
\* or destruction of it invokes the deleter again.
C8_CleanupFailure ==
    /\ (last.op \in {"release", "destroy"} /\ last.calls # <<>> /\ last.calls[1].threw) =>
        /\ last.err = "none"
        /\ PostMembers.rel
        /\ PostMembers.res = EmptyResources
        /\ ncalls[last.g] = last.pre.n + 1
    /\ (last.op \in {"release", "destroy"} /\ last.pre.by = "cleanup_threw") =>
        /\ last.calls = <<>>
        /\ last.err = "none"

C8_Witness ==
    /\ last.op = "destroy"
    /\ last.pre.by = "cleanup_threw"
    /\ ncalls[last.g] = 1

\* C9: move-assignment D = move(S) between distinct guards.  If D is
\* non-released, D's own deleter is invoked exactly once with the resources
\* D held before the assignment; D then has S's resources, deleter and
\* released flag, S is released, and S has invoked nothing.
C9_MoveAssign ==
    (last.op = "move_assign" /\ last.g # last.src) =>
        /\ ~last.pre.rel =>
            /\ CalledOnce(last.pre.del, last.pre.res)
            /\ ncalls[last.g] = last.pre.n + 1
        /\ last.pre.rel => (last.calls = <<>> /\ ncalls[last.g] = last.pre.n)
        /\ Members(last.g) = PreSrcMembers
        /\ m_released[last.src]
        /\ ncalls[last.src] = last.presrc.n
        /\ last.err = "none"

C9_Witness ==
    /\ last.op = "move_assign"
    /\ last.g # last.src
    /\ ~last.pre.rel /\ ~last.presrc.rel
    /\ last.pre.del # last.presrc.del
    /\ last.pre.res # last.presrc.res

\* C10 as stated (I3): no guard object ever makes more than one deleter
\* invocation over its whole lifetime.
C10_AtMostOnePerInstance == \A g \in Guards : ncalls[g] <= 1

\* C10 amended: a guard object makes at most one deleter invocation for each
\* obligation it takes on (at construction, or as the destination of a
\* move-assignment from a non-released guard).
C10_AtMostOnePerObligation == \A g \in Guards : since[g] <= 1

C10_Witness ==
    \E g \in Guards : ncalls[g] = 2 /\ since[g] = 1 /\ life[g] = "dead"

\* ------------------------------------------------------------------ C11
\* A guard the released flag is set on: alive with m_released, or destroyed
\* (the destructor ran cleanup()).
Released(g) == (life[g] = "alive" /\ m_released[g]) \/ life[g] = "dead"

\* C11 as stated: every guard with released == true either invoked its
\* deleter exactly once, with the resource values the guard was given, or
\* was stolen from or emptied by a move (as its source, or by taking over a
\* released source) without any deleter invocation.
C11_OnceWithOriginalValues ==
    \A g \in Guards :
        Released(g) =>
            \/ ncalls[g] = 1 /\ hist.asgiven[g]
            \/ ncalls[g] = 0 /\ relby[g] \in {"steal", "moved", "inherited"}

\* C11 amended: every guard with released == true either invoked its
\* deleter exactly once for the obligation it last held, with the values it
\* stored at that moment (the values it was given by its constructor or by
\* the move that armed it, unless set replaced them), or holds the flag
\* without an invocation for that obligation because it was stolen from,
\* was the source of a move, or took over the flag of a released source.
C11_OnceWithStoredValues ==
    /\ \A g \in Guards :
        Released(g) =>
            /\ since[g] <= 1
            /\ since[g] = 1 =>
                /\ relby[g] \in {"cleanup", "cleanup_threw", "inherited"}
                /\ ~hist.changed[g] => hist.asgiven[g]
            /\ since[g] = 0 => relby[g] \in {"steal", "moved", "inherited"}
    /\ \A k \in 1..Len(last.calls) : last.calls[k].args = last.pre.res

\* A guard constructed over (0x1, 0) whose int was set to 1 has been
\* released: the deleter got (0x1, 1), not the values the guard was given.
C11_Witness ==
    \E g \in Guards :
        /\ last.op = "release" /\ last.g = g /\ m_released[g]
        /\ since[g] = 1 /\ ncalls[g] = 1
        /\ hist.changed[g] /\ ~hist.asgiven[g]
        /\ last.calls[1].args = <<1, 1>>

\* ------------------------------------------------------------------ C12
\* The guards that are alive, not released and hold the resource set r.
Owners(r) == {g \in Guards : life[g] = "alive" /\ ~m_released[g] /\ m_resources[g] = r}

\* C12: with guards constructed over pairwise distinct resource sets, after
\* any sequence of move-constructions, move-assignments, releases, steals
\* and destructions, at most one non-released guard holds any resource set
\* (no two guards carry a cleanup obligation for the same resources), and
\* what a non-released guard holds is a set some guard was constructed over.
C12_SingleOwner ==
    /\ \A r \in Tuples : Cardinality(Owners(r)) <= 1
    /\ \A g \in Guards : (life[g] = "alive" /\ ~m_released[g]) => m_resources[g] \in hist.used

\* After a move two guards store (0x1, 0), and one of them is released.
C12_Witness ==
    \E g \in Guards, h \in Guards :
        /\ g # h /\ life[g] = "alive" /\ life[h] = "alive"
        /\ m_resources[g] = <<1, 0>> /\ m_resources[h] = <<1, 0>>
        /\ ~m_released[g] /\ m_released[h]
        /\ last.op \in {"move_construct", "move_assign"} /\ last.g = g /\ last.src = h

\* ------------------------------------------------------------------ C13
\* C13: set(v) / set<I>(v) on a non-released guard replaces only the
\* resource at index I with v: it invokes no deleter, leaves every other
\* index, the deleter and the released flag unchanged, a try_get<I>() on
\* the guard now returns v, and cleanup() of the guard passes the updated
\* tuple; a release or destruction of a non-released guard invokes the
\* deleter once with the tuple the guard stores at that moment.
C13_SetReplacesOneIndex ==
    /\ (last.op = "set" /\ ~last.pre.rel) =>
        LET g == last.g
            I == last.idx
            v == last.arg
            updated == TupleSet(last.pre.res, I, v)
        IN  /\ last.err = "none"
            /\ last.calls = <<>>
            /\ ncalls[g] = last.pre.n
            /\ TupleGet(m_resources[g], I) = v
            /\ \A J \in Indices \ {I} :
                   TupleGet(m_resources[g], J) = TupleGet(last.pre.res, J)
            /\ m_deleter[g] = last.pre.del
            /\ ~m_released[g]
            /\ try_get(Members(g), I) = [err |-> "none", ret |-> <<v>>]
            /\ cleanup(Members(g), FALSE).calls =
                   <<[d |-> last.pre.del, args |-> updated, threw |-> FALSE]>>
    /\ (last.op \in {"release", "destroy"} /\ ~last.pre.rel) =>
        CalledOnce(last.pre.del, last.pre.res)

\* set<1>(1) on a non-released guard over (0x1, 0).
C13_Witness ==
    /\ last.op = "set" /\ ~last.pre.rel
    /\ last.idx = 1 /\ last.arg = 1
    /\ last.pre.res = <<1, 0>>
    /\ m_resources[last.g] = <<1, 1>>

\* ------------------------------------------------------------------ C14
\* C14: after a guard has been the source of a move-construction or of a
\* move-assignment (to another guard), it has released == true, its stored
\* resources are the empty (default) values rather than the values that
\* were transferred, and the move invoked no deleter on behalf of the source.
C14_MoveSourceEmptied ==
    (last.op \in {"move_construct", "move_assign"} /\ last.src # last.g) =>
        /\ m_released[last.src]
        /\ m_resources[last.src] = EmptyResources
        /\ ncalls[last.src] = last.presrc.n

\* ------------------------------------------------------------------ C15
\* C15: self-move-assignment (G = move(G)) of any guard, released or not,
\* invokes no deleter and leaves the resources, the deleter and the released
\* flag of G unchanged; a non-released G therefore still owes its one
\* deleter invocation, with the same tuple, which its cleanup() performs.
C15_SelfMoveAssign ==
    (last.op = "move_assign" /\ last.src = last.g) =>
        LET g == last.g IN
        /\ last.err = "none"
        /\ last.calls = <<>>
        /\ Members(g) = PreMembers
        /\ ncalls[g] = last.pre.n
        /\ relby[g] = last.pre.by
        /\ ~last.pre.rel =>
               cleanup(Members(g), FALSE).calls =
                   <<[d |-> last.pre.del, args |-> last.pre.res, threw |-> FALSE]>>
        /\ last.pre.rel => cleanup(Members(g), FALSE).calls = <<>>

\* A non-released guard over (0x1, 0) was move-assigned to itself before
\* any other mutating call.
C15_Witness ==
    /\ last.op = "move_assign" /\ last.src = last.g
    /\ ~m_released[last.g]
    /\ m_resources[last.g] = <<1, 0>>
    /\ pristine[last.g]

\* ------------------------------------------------------------------ C16
\* C16: a move-construction or move-assignment from an already released
\* source leaves the destination released: its get, set and steal fail, its
\* boolean conversion is false, the move invokes no deleter for what it
\* transferred (a move-assignment invokes at most the destination's own
\* deleter on the destination's own resources), and as long as the
\* destination holds the flag it took over, its get/set/steal fail, its
\* boolean conversion is false and its release and destruction invoke nothing.
C16_MoveFromReleased ==
    /\ (last.op \in {"move_construct", "move_assign"} /\ last.src # last.g
          /\ last.presrc.rel) =>
        LET mem == Members(last.g) IN
        /\ mem.rel
        /\ ~operator_bool(mem)
        /\ \A I \in Indices :
            /\ get(mem, I).err = "logic_error"
            /\ \A v \in ValuesOf(TypeAt(I)) : set(mem, I, v).err = "logic_error"
        /\ steal(mem).err = "logic_error"
        /\ cleanup(mem, FALSE).calls = <<>>
        /\ IF last.op = "move_assign" /\ ~last.pre.rel
           THEN CalledOnce(last.pre.del, last.pre.res)
           ELSE last.calls = <<>>
        /\ relby[last.g] = "inherited"
    /\ \A g \in Guards : relby[g] = "inherited" /\ life[g] = "alive" => m_released[g]
    /\ last.pre.by = "inherited" =>
        /\ last.op \in {"release", "destroy"} => last.calls = <<>>
        /\ last.op \in {"get", "set", "steal"} => last.err = "logic_error"
        /\ last.op = "bool" => ~last.bv

\* A guard was move-constructed from a guard that release() had released
\* after construction over (0x1, 0).
C16_Witness ==
    /\ last.op = "move_construct"
    /\ last.presrc.rel /\ last.presrc.by = "cleanup"
    /\ m_released[last.g]
    /\ ncalls[last.src] = 1

\* ------------------------------------------------------------------ C17
\* Every guard that was constructed has been destroyed.
AllDestroyed == \A g \in Guards : life[g] # "alive"

\* C17: with guards constructed over pairwise distinct resource sets and no
\* set calls, over any interleaving of move-construction, move-assignment,
\* release, steal and destruction: every resource set is passed to a
\* deleter at most once, and only a set some guard was constructed over is;
\* a set that steal() has returned is never passed to a deleter afterwards;
\* and once every guard has been destroyed, every resource set has either
\* been passed to a deleter exactly once or been returned by steal() exactly
\* once.
C17_NoDoubleRelease ==
    /\ [](\A r \in Tuples :
            /\ hist.cleaned[r] <= 1
            /\ r \notin hist.used => hist.cleaned[r] = 0 /\ hist.stolen[r] = 0)
    /\ [][\A r \in Tuples :
            hist.stolen[r] > 0 => hist'.cleaned[r] = hist.cleaned[r]]_vars
    /\ [](AllDestroyed =>
            \A r \in hist.used :
                \/ hist.cleaned[r] = 1 /\ hist.stolen[r] = 0
                \/ hist.cleaned[r] = 0 /\ hist.stolen[r] = 1)

\* Two guards were constructed over (0x1, 0) and (0x0, 1), the sets were
\* handed on by a move, one was stolen, the other cleaned up, and both
\* guards are destroyed.
C17_Witness ==
    /\ \A g \in Guards : life[g] = "dead"
    /\ hist.used = {<<1, 0>>, <<0, 1>>}
    /\ hist.cleaned[<<1, 0>>] = 1 /\ hist.stolen[<<1, 0>>] = 0
    /\ hist.stolen[<<0, 1>>] = 1 /\ hist.cleaned[<<0, 1>>] = 0
    /\ \E g \in Guards : relby[g] = "moved"

\* ------------------------------------------------------------------ C18
\* C18: the released flag of a guard goes from true back to false only in a
\* step in which the guard is the destination of a move-assignment from
\* another guard that is not released; no other member call (get, try_get,
\* set, try_set, release, steal, boolean conversion, being the source of a
\* move, self-move-assignment) clears the flag of a released guard.
C18_OnlyMoveAssignRearms ==
    [][\A g \in Guards :
          (life[g] = "alive" /\ m_released[g] /\ life'[g] = "alive" /\ ~m_released'[g]) =>
              /\ last'.op = "move_assign"
              /\ last'.g = g
              /\ last'.src # g
              /\ life[last'.src] = "alive"
              /\ ~m_released[last'.src]]_vars

\* A released guard has just been re-armed by a move-assignment from a
\* non-released guard.
C18_Witness ==
    /\ last.op = "move_assign" /\ last.src # last.g
    /\ last.pre.rel /\ ~last.presrc.rel
    /\ ~m_released[last.g] /\ m_released[last.src]
    /\ m_resources[last.g] = <<1, 1>>

\* ------------------------------------------------------------------ C19
\* C19: when the deleter, while it runs on behalf of guard G, itself calls
\* G.release(), G.get() or G.steal(), G still invokes the deleter at most
\* once for its resource set: every call made from inside the deleter finds
\* G released (the nested release() invokes nothing, the nested get() and
\* steal() fail).
C19_ReentrantCallSeesReleased ==
    /\ \A g \in Guards : ncalls[g] <= 1
    /\ last.op \in {"release", "destroy"} =>
        /\ Len(last.calls) <= 1
        /\ \A k \in 1..Len(hist.nested) :
            /\ hist.nested[k].rel
            /\ hist.nested[k].n = 0
            /\ hist.nested[k].op \in {"get", "steal"} => hist.nested[k].err = "logic_error"

====
